---------------------------- MODULE Spec2Model ----------------------------
(***************************************************************************)
(* Model of src/commonMistakeFix.py: the "Bulk Find and Replace Tool".     *)
(*                                                                         *)
(* A text is a sequence of characters; a character is a one-element name   *)
(* ("a", "A", ...).  "U0130" is LATIN CAPITAL LETTER I WITH DOT ABOVE, the  *)
(* one character whose Python str.lower() is two characters long           *)
(* ("i" followed by "U0307", COMBINING DOT ABOVE).  A file is the text it   *)
(* holds; the lines read from it keep their terminator "\n", as those of   *)
(* Python do.                                                              *)
(***************************************************************************)
EXTENDS Integers, Sequences, FiniteSets, TLC

(***************************************************************************)
(* Bounds of the model.                                                    *)
(***************************************************************************)
\* Iterations after which a substitution loop is taken to run forever.
MaxIter == 8
\* Longest line and longest term of the per-line specification LoopSpec.
MaxLineLen == 3
MaxTermLen == 2
\* Number of edits made to the files from outside the program, and number of
\* applies that get past the confirmation dialog.
MaxEdits == 1
MaxApplies == 1

(***************************************************************************)
(* Python string primitives.                                               *)
(***************************************************************************)
Min(a, b) == IF a < b THEN a ELSE b

SeqsUpTo(chars, n) == UNION {[1..k -> chars] : k \in 0..n}

\* str.lower() of one character
LowerChar(c) ==
    CASE c = "A" -> <<"a">>
      [] c = "B" -> <<"b">>
      [] c = "C" -> <<"c">>
      [] c = "T" -> <<"t">>
      [] c = "U0130" -> <<"i", "U0307">>
      [] OTHER -> <<c>>

\* str.lower()
RECURSIVE Lower(_)
Lower(s) == IF s = <<>> THEN <<>> ELSE LowerChar(Head(s)) \o Lower(Tail(s))

\* s[lo:hi] for 0 <= lo, 0 <= hi: indices past the end are clamped
Slice(s, lo, hi) == SubSeq(s, Min(lo, Len(s)) + 1, Min(hi, Len(s)))

\* s[lo:]
SliceFrom(s, lo) == SubSeq(s, Min(lo, Len(s)) + 1, Len(s))

\* s.find(sub, start) for start >= 0: the lowest index >= start at which sub
\* occurs in s, or -1; the empty sub occurs at every index up to len(s)
Find(s, sub, start) ==
    LET hits == {i \in start..(Len(s) - Len(sub)) :
                    SubSeq(s, i + 1, i + Len(sub)) = sub}
    IN  IF hits = {} THEN -1
        ELSE CHOOSE i \in hits : \A j \in hits : i <= j

\* sub in s
Contains(s, sub) == Find(s, sub, 0) # -1

\* str.strip() (the whitespace of the model is " " and "\n")
Whitespace == {" ", "\n"}

RECURSIVE LStrip(_)
LStrip(s) == IF s # <<>> /\ Head(s) \in Whitespace THEN LStrip(Tail(s)) ELSE s

RECURSIVE RStrip(_)
RStrip(s) ==
    IF s # <<>> /\ s[Len(s)] \in Whitespace
    THEN RStrip(SubSeq(s, 1, Len(s) - 1))
    ELSE s

Strip(s) == RStrip(LStrip(s))

\* ''.join(lines)
RECURSIVE Join(_)
Join(lines) == IF lines = <<>> THEN <<>> ELSE Head(lines) \o Join(Tail(lines))

\* f.readlines(), and the lines "for line in f" yields: the text cut after
\* each "\n"; line holds the characters read since the last cut
RECURSIVE SplitLines(_, _, _)
SplitLines(text, line, acc) ==
    IF text = <<>> THEN (IF line = <<>> THEN acc ELSE Append(acc, line))
    ELSE IF Head(text) = "\n"
    THEN SplitLines(Tail(text), <<>>, Append(acc, Append(line, "\n")))
    ELSE SplitLines(Tail(text), Append(line, Head(text)), acc)

ReadLines(text) == SplitLines(text, <<>>, <<>>)

(***************************************************************************)
(* The substitution loop.  The source holds it twice: in _preview_changes  *)
(* (lines 223-231) and in _perform_replace (lines 310-319).  A loop state  *)
(* is [line, start, count]: new_line, start, and the number of iterations  *)
(* (replacements_made counts them in _perform_replace).                    *)
(***************************************************************************)
LoopStart(line) == [line |-> line, start |-> 0, count |-> 0]

\* pos = new_line.lower().find(find_str.lower(), start)          (line 226)
PreviewPos(st, S) == Find(Lower(st.line), Lower(S), st.start)

\* one iteration of the loop of _preview_changes             (lines 230-231)
PreviewBody(st, S, R) ==
    LET pos == PreviewPos(st, S)
    IN  [line  |-> Slice(st.line, 0, pos) \o R \o SliceFrom(st.line, pos + Len(S)),
         start |-> pos + Len(R),
         count |-> st.count + 1]

\* pos = new_line.lower().find(find_str.lower(), start)          (line 313)
ReplacePos(st, S) == Find(Lower(st.line), Lower(S), st.start)

\* one iteration of the loop of _perform_replace             (lines 317-319)
ReplaceBody(st, S, R) ==
    LET pos == ReplacePos(st, S)
    IN  [line  |-> Slice(st.line, 0, pos) \o R \o SliceFrom(st.line, pos + Len(S)),
         start |-> pos + Len(R),
         count |-> st.count + 1]

\* The loops run to their exit: [line, count, done], done = FALSE when the
\* loop is still running after MaxIter iterations.
RECURSIVE PreviewRun(_, _, _)
PreviewRun(st, S, R) ==
    IF PreviewPos(st, S) = -1
    THEN [line |-> st.line, count |-> st.count, done |-> TRUE]
    ELSE IF st.count >= MaxIter
    THEN [line |-> st.line, count |-> st.count, done |-> FALSE]
    ELSE PreviewRun(PreviewBody(st, S, R), S, R)

RECURSIVE ReplaceRun(_, _, _)
ReplaceRun(st, S, R) ==
    IF ReplacePos(st, S) = -1
    THEN [line |-> st.line, count |-> st.count, done |-> TRUE]
    ELSE IF st.count >= MaxIter
    THEN [line |-> st.line, count |-> st.count, done |-> FALSE]
    ELSE ReplaceRun(ReplaceBody(st, S, R), S, R)

(***************************************************************************)
(* The directory.  Files are walked in a fixed order (os.walk, line 214).  *)
(* Files 1 and 2 are text files; the name of file 3 ends with "txt" but    *)
(* not with ".txt".                                                        *)
(***************************************************************************)
Files == {1, 2, 3}

FileNames ==
    <<<<"a", ".", "t", "x", "t">>,
      <<"b", ".", "t", "x", "t">>,
      <<"a", "t", "x", "t">>>>

\* the files whose name ends with ".txt"
TextFiles == {1, 2}

\* str.endswith                                                    (line 216)
EndsWith(s, suffix) ==
    /\ Len(suffix) <= Len(s)
    /\ SubSeq(s, Len(s) - Len(suffix) + 1, Len(s)) = suffix

\* ext as lines 204-206 leave it
NormalExt(ext) ==
    IF ext # <<>> /\ Head(ext) = "." THEN ext ELSE <<".">> \o ext

\* what the user may type into the "File Extension" field
ExtTexts == {<<".", "t", "x", "t">>, <<"t", "x", "t">>}

LineABB == <<"a", "b", "b", "\n">>
LineAb == <<"A", "b", "\n">>
LineB == <<"b", "\n">>
LineDotted == <<"U0130", "a", "b", "\n">>
\* a last line without terminator
LastLineB == <<"b">>

\* the directories the program is started on: the text of files 1, 2 and 3
Directories ==
    {<<Join(<<LineABB, LineAb>>), Join(<<LineB>>), Join(<<LineAb>>)>>,
     <<Join(<<LineABB, LineAb>>), Join(<<LineABB>>), Join(<<LineAb>>)>>,
     <<Join(<<LineDotted, LineAb>>), Join(<<LineABB>>), Join(<<LineAb>>)>>,
     <<Join(<<LineB, LastLineB>>), Join(<<LineDotted>>), Join(<<LineAb>>)>>}

\* what an edit from outside may leave in a file
EditedContents == {Join(<<LineAb>>), Join(<<LineB, LineABB>>)}

\* what the user may type into the "Find Text" and "Replace With" fields
FindTexts == {<<>>, <<"a">>, <<"a", "b">>}
ReplaceTexts == {<<>>, <<"a">>}

\* the files for which open() raises during one pass: at most one of them
FailureSets == {{}} \cup {{f} : f \in TextFiles}

CHECKED == "checked"
CROSSED == "crossed"

VARIABLES
    files,             \* the file system: file -> its text
    target_directory,  \* self.target_directory ("" until one is selected)
    find_text,         \* self.find_text
    replace_text,      \* self.replace_text
    file_extension,    \* self.file_extension
    preview_data,      \* self.preview_data
    tree,              \* the rows of self.tree
    replace_button,    \* state of self.replace_button
    hung,              \* a handler is in a loop that never exits
    last,              \* the last handler run: its locals, dialog and I/O
    at_scan,           \* since the last scan: are the terms and the files
                       \* unchanged, and which files it could not read
    edits,             \* number of outside edits so far
    applies,           \* number of applies confirmed so far
    loop               \* LoopSpec: one substitution loop, step by step

vars == <<files, target_directory, find_text, replace_text, file_extension,
          preview_data, tree,
          replace_button, hung, last, at_scan, edits, applies,
          loop>>

appVars == <<files, target_directory, find_text, replace_text, file_extension,
             preview_data,
             tree, replace_button, hung, last, at_scan, edits,
             applies>>

\* the record of a handler run, before the handler fills it in
Ran(op) ==
    [op |-> op, outcome |-> "done", dialog |-> "none",
     directory |-> target_directory, find |-> find_text, replace |-> replace_text,
     reads |-> {}, writes |-> {}, failed |-> {},
     n_items |-> Len(preview_data), selected |-> <<>>,
     files_changed_count |-> 0, total_replacements |-> 0,
     fresh |-> FALSE, rescan |-> FALSE]

IdleLoop ==
    [pc |-> "idle", which |-> "preview", L |-> <<>>, S |-> <<>>, R |-> <<>>,
     line |-> <<>>, start |-> 0, count |-> 0]

\* the program after __init__                                    (lines 19-23)
AppStart ==
    /\ target_directory = ""
    /\ find_text = <<>>
    /\ replace_text = <<>>
    /\ file_extension = <<".", "t", "x", "t">>
    /\ preview_data = <<>>
    /\ tree = <<>>
    /\ replace_button = "disabled"
    /\ hung = FALSE
    /\ last = [Ran("init") EXCEPT !.directory = "", !.find = <<>>,
                                  !.replace = <<>>, !.n_items = 0]
    /\ at_scan = [unchanged |-> FALSE, unread |-> {}]
    /\ edits = 0
    /\ applies = 0

Init ==
    /\ files \in Directories
    /\ AppStart
    /\ loop = IdleLoop

(***************************************************************************)
(* The entry fields, the directory dialog and the world outside.           *)
(***************************************************************************)
\* _select_directory: the dialog returns a path, or "" when cancelled
SelectDirectory ==
    /\ ~hung
    /\ \E path \in {"", "dir"} :
          IF path # ""
          THEN target_directory' = path
          ELSE UNCHANGED target_directory
    /\ UNCHANGED <<files, find_text, replace_text, file_extension, preview_data,
                   tree, replace_button, hung, last, at_scan, edits, applies,
                   loop>>

\* the user types into the entry bound to self.find_text (the model follows
\* a session until its last apply, and the scans after it leave the terms
\* and the files as they are)
SetFindText ==
    /\ ~hung
    /\ applies < MaxApplies
    /\ \E s \in FindTexts \ {find_text} : find_text' = s
    /\ at_scan' = [at_scan EXCEPT !.unchanged = FALSE]
    /\ UNCHANGED <<files, target_directory, replace_text, file_extension,
                   preview_data, tree,
                   replace_button, hung, last, edits, applies, loop>>

\* the user types into the entry bound to self.replace_text
SetReplaceText ==
    /\ ~hung
    /\ applies < MaxApplies
    /\ \E r \in ReplaceTexts \ {replace_text} : replace_text' = r
    /\ at_scan' = [at_scan EXCEPT !.unchanged = FALSE]
    /\ UNCHANGED <<files, target_directory, find_text, file_extension,
                   preview_data, tree,
                   replace_button, hung, last, edits, applies, loop>>

\* the user types into the entry bound to self.file_extension (the model
\* follows the typing while no preview is on display: the extension is read
\* by the scan alone, and the scan first clears the preview)
SetFileExtension ==
    /\ ~hung
    /\ applies < MaxApplies
    /\ preview_data = <<>>
    /\ \E e \in ExtTexts \ {file_extension} : file_extension' = e
    /\ UNCHANGED <<files, target_directory, find_text, replace_text,
                   preview_data, tree, replace_button, hung, last, at_scan,
                   edits, applies, loop>>

\* another program rewrites a file while a preview is on display (the
\* program takes no lock)
ExternalEdit ==
    /\ ~hung
    /\ preview_data # <<>>
    /\ applies < MaxApplies
    /\ edits < MaxEdits
    /\ \E f \in TextFiles : \E c \in EditedContents \ {files[f]} :
          files' = [files EXCEPT ![f] = c]
    /\ edits' = edits + 1
    /\ last' = Ran("external_edit")
    /\ at_scan' = [at_scan EXCEPT !.unchanged = FALSE]
    /\ UNCHANGED <<target_directory, find_text, replace_text, file_extension,
                   preview_data, tree,
                   replace_button, hung, applies, loop>>

(***************************************************************************)
(* The include column.                                                     *)
(***************************************************************************)
\* ToggleCheckbox with the record looked up one place too far
ToggleCheckboxNextRecord(pd, tr, i) ==
    LET current_state == tr[i].include
        included == (current_state # CHECKED)
        mark == IF current_state = CHECKED THEN CROSSED ELSE CHECKED
    IN  [tree |-> [tr EXCEPT ![i].include = mark],
         preview_data |->
             IF 0 <= i /\ i < Len(pd)
             THEN [pd EXCEPT ![i + 1].included = included]
             ELSE pd]

\* _toggle_checkbox on the i-th row of the tree (item_index = i - 1)
ToggleCheckbox(pd, tr, i) ==
    LET current_state == tr[i].include
        included == (current_state # CHECKED)
        mark == IF current_state = CHECKED THEN CROSSED ELSE CHECKED
    IN  [tree |-> [tr EXCEPT ![i].include = mark],
         preview_data |->
             IF 0 <= i - 1 /\ i - 1 < Len(pd)
             THEN [pd EXCEPT ![i].included = included]
             ELSE pd]

\* SetAllRows with the mark of _select_all in _deselect_all too
SetAllRowsChecksEvery(tr, flag) ==
    [k \in 1..Len(tr) |-> [tr[k] EXCEPT !.include = CHECKED]]

\* the loops of _select_all (flag = TRUE) and _deselect_all (flag = FALSE)
SetAllRows(tr, flag) ==
    [k \in 1..Len(tr) |->
        [tr[k] EXCEPT !.include = IF flag THEN CHECKED ELSE CROSSED]]

SetAllItems(pd, flag) == [k \in 1..Len(pd) |-> [pd[k] EXCEPT !.included = flag]]

\* _on_tree_click on a cell of the Include column
Toggle ==
    /\ ~hung
    /\ \E i \in 1..Len(tree) :
       \E r \in {ToggleCheckbox(preview_data, tree, i)} :
              /\ tree' = r.tree
              /\ preview_data' = r.preview_data
    /\ UNCHANGED <<files, target_directory, find_text, replace_text,
                   file_extension, replace_button, hung, last, at_scan, edits,
                   applies, loop>>

SelectAll ==
    /\ ~hung
    /\ tree' = SetAllRows(tree, TRUE)
    /\ preview_data' = SetAllItems(preview_data, TRUE)
    /\ UNCHANGED <<files, target_directory, find_text, replace_text,
                   file_extension, replace_button, hung, last, at_scan, edits,
                   applies, loop>>

DeselectAll ==
    /\ ~hung
    /\ tree' = SetAllRows(tree, FALSE)
    /\ preview_data' = SetAllItems(preview_data, FALSE)
    /\ UNCHANGED <<files, target_directory, find_text, replace_text,
                   file_extension, replace_button, hung, last, at_scan, edits,
                   applies, loop>>

(***************************************************************************)
(* The scan: _preview_changes.                                             *)
(***************************************************************************)
\* Item with the lines counted from 0 (enumerate(f) without its start)
ItemCountsFromZero(f, line_num, line, new_line) ==
    [path |-> f, line_num |-> line_num - 1, original_line |-> line,
     new_line |-> new_line, included |-> TRUE]

\* the record appended to preview_data                          (lines 234-240)
Item(f, line_num, line, new_line) ==
    [path |-> f, line_num |-> line_num, original_line |-> line,
     new_line |-> new_line, included |-> TRUE]

\* the row inserted into the tree                                   (line 243)
Row(it) ==
    [include |-> CHECKED, file |-> it.path, line |-> it.line_num,
     original |-> Strip(it.original_line), new |-> Strip(it.new_line)]

\* ScanLines that leaves the file at its first matching line
ScanLinesFirstMatchOnly(f, content, i, S, R, acc) ==
    LET hits == {k \in i..Len(content) : Contains(Lower(content[k]), Lower(S))}
    IN  IF hits = {} THEN [items |-> acc, hung |-> FALSE]
        ELSE LET k == CHOOSE h \in hits : \A j \in hits : h <= j
                 r == PreviewRun(LoopStart(content[k]), S, R)
             IN  IF ~r.done THEN [items |-> acc, hung |-> TRUE]
                 ELSE [items |-> Append(acc, Item(f, k, content[k], r.line)),
                       hung |-> FALSE]

\* the lines of one file from line i on (lines 220-244): the items found,
\* and hung = TRUE when the loop on some line never exits; content is the
\* sequence of the lines of the file
RECURSIVE ScanLines(_, _, _, _, _, _)
ScanLines(f, content, i, S, R, acc) ==
    IF i > Len(content) THEN [items |-> acc, hung |-> FALSE]
    ELSE IF ~Contains(Lower(content[i]), Lower(S))
    THEN ScanLines(f, content, i + 1, S, R, acc)
    ELSE LET r == PreviewRun(LoopStart(content[i]), S, R)
         IN  IF ~r.done THEN [items |-> acc, hung |-> TRUE]
             ELSE ScanLines(f, content, i + 1, S, R,
                            Append(acc, Item(f, i, content[i], r.line)))

\* the files from file f on (lines 214-246); open() raises for the files
\* of unreadable, which are reported and skipped
RECURSIVE ScanFiles(_, _, _, _, _, _, _)
ScanFiles(fs, f, ext, S, R, unreadable, acc) ==
    IF f \notin Files THEN acc
    ELSE IF ~EndsWith(FileNames[f], ext)
    THEN ScanFiles(fs, f + 1, ext, S, R, unreadable, acc)
    ELSE IF f \in unreadable
    THEN ScanFiles(fs, f + 1, ext, S, R, unreadable,
                   [acc EXCEPT !.failed = @ \cup {f}])
    ELSE LET r == ScanLines(f, ReadLines(fs[f]), 1, S, R, acc.items)
         IN  IF r.hung
             THEN [acc EXCEPT !.items = r.items, !.hung = TRUE,
                              !.reads = @ \cup {f}]
             ELSE ScanFiles(fs, f + 1, ext, S, R, unreadable,
                            [acc EXCEPT !.items = r.items, !.reads = @ \cup {f}])

\* ScanDirectory without the clearing of lines 188-190
ScanDirectoryKeepsStore(fs, ext, S, R, unreadable) ==
    ScanFiles(fs, 1, ext, S, R, unreadable,
              [items |-> preview_data, hung |-> FALSE, reads |-> {}, failed |-> {}])

\* the scan of a store just cleared                   (lines 188-190, 212-246)
ScanDirectory(fs, ext, S, R, unreadable) ==
    ScanFiles(fs, 1, ext, S, R, unreadable,
              [items |-> <<>>, hung |-> FALSE, reads |-> {}, failed |-> {}])

Rows(items) == [k \in 1..Len(items) |-> Row(items[k])]

\* an apply that ran to its summary on the terms and the files of the scan
\* before it, with every occurrence included and no file failing
CleanApply(l) ==
    /\ l.op = "apply"
    /\ l.outcome = "done"
    /\ l.fresh
    /\ l.n_items = Len(l.selected)
    /\ l.failed = {}

PreviewChanges ==
    /\ ~hung
    /\ UNCHANGED <<files, target_directory, find_text, replace_text, edits,
                   applies, loop>>
    /\ IF target_directory = ""
       THEN /\ preview_data' = <<>>
            /\ UNCHANGED file_extension
            /\ tree' = <<>>
            /\ replace_button' = "disabled"
            /\ last' = [Ran("scan") EXCEPT !.outcome = "rejected",
                                           !.dialog = "error: select a directory"]
            /\ UNCHANGED <<hung, at_scan>>
       ELSE IF find_text = <<>>
       THEN /\ preview_data' = <<>>
            /\ UNCHANGED file_extension
            /\ tree' = <<>>
            /\ replace_button' = "disabled"
            /\ last' = [Ran("scan") EXCEPT !.outcome = "rejected",
                                           !.dialog = "error: enter the text to find"]
            /\ UNCHANGED <<hung, at_scan>>
       ELSE \E unreadable \in FailureSets :
            \E r \in {ScanDirectory(files, NormalExt(file_extension), find_text,
                                     replace_text, unreadable)} :
            LET found_count == Len(r.items)
            IN  /\ file_extension' = NormalExt(file_extension)
                /\ preview_data' = r.items
                /\ tree' = Rows(r.items)
                /\ hung' = r.hung
                /\ replace_button' =
                       IF ~r.hung /\ found_count > 0 THEN "normal" ELSE "disabled"
                /\ at_scan' = [unchanged |-> TRUE, unread |-> r.failed]
                /\ last' = [Ran("scan") EXCEPT
                               !.outcome = IF r.hung THEN "hung" ELSE "done",
                               !.reads = r.reads, !.failed = r.failed,
                               !.rescan = CleanApply(last) /\ last.find = find_text
                                          /\ r.failed = {}]

(***************************************************************************)
(* The apply: _perform_replace.                                            *)
(***************************************************************************)
Included(it) == it.included

\* SelectedItems without the filter on "included"
SelectedItemsAll(pd) == pd

\* selected_items                                                   (line 267)
SelectedItems(pd) == SelectSeq(pd, Included)

\* the keys of files_to_change, in insertion order             (lines 279-284)
RECURSIVE FileOrder(_, _)
FileOrder(selected, acc) ==
    IF selected = <<>> THEN acc
    ELSE IF \E k \in 1..Len(acc) : acc[k] = Head(selected).path
    THEN FileOrder(Tail(selected), acc)
    ELSE FileOrder(Tail(selected), Append(acc, Head(selected).path))

\* files_to_change[file_path]
FileItems(selected, f) ==
    LET OfFile(it) == it.path = f
    IN  SelectSeq(selected, OfFile)

\* ApplyItems that leaves a line alone unless it is the original_line stored
RECURSIVE ApplyItemsValidatesOriginal(_, _, _, _, _, _)
ApplyItemsValidatesOriginal(file_items, k, lines, S, R, made) ==
    IF k > Len(file_items)
    THEN [lines |-> lines, replacements_made |-> made, hung |-> FALSE]
    ELSE LET line_num == file_items[k].line_num
             original_line == file_items[k].original_line
         IN  IF 1 <= line_num /\ line_num <= Len(lines)
                /\ lines[line_num] = original_line
             THEN LET r == ReplaceRun(LoopStart(lines[line_num]), S, R)
                  IN  IF ~r.done
                      THEN [lines |-> lines, replacements_made |-> made + r.count,
                            hung |-> TRUE]
                      ELSE ApplyItemsValidatesOriginal(
                               file_items, k + 1,
                               [lines EXCEPT ![line_num] = r.line],
                               S, R, made + r.count)
             ELSE ApplyItemsValidatesOriginal(file_items, k + 1, lines, S, R, made)

\* the items of one file from item k on (lines 301-321): the line array, the
\* value of replacements_made, and hung = TRUE when a loop never exits
RECURSIVE ApplyItems(_, _, _, _, _, _)
ApplyItems(file_items, k, lines, S, R, made) ==
    IF k > Len(file_items)
    THEN [lines |-> lines, replacements_made |-> made, hung |-> FALSE]
    ELSE LET line_num == file_items[k].line_num
         IN  IF 1 <= line_num /\ line_num <= Len(lines)
             THEN LET r == ReplaceRun(LoopStart(lines[line_num]), S, R)
                  IN  IF ~r.done
                      THEN [lines |-> lines, replacements_made |-> made + r.count,
                            hung |-> TRUE]
                      ELSE ApplyItems(file_items, k + 1,
                                      [lines EXCEPT ![line_num] = r.line],
                                      S, R, made + r.count)
             ELSE ApplyItems(file_items, k + 1, lines, S, R, made)

\* ApplyFile with total_replacements added to outside the "if" of line 325
ApplyFileCountsUnwritten(f, selected, S, R, unwritable, acc) ==
    LET lines == ReadLines(acc.files[f])
        original_content == Join(lines)
        r == ApplyItems(FileItems(selected, f), 1, lines, S, R, 0)
        new_content == Join(r.lines)
        read == [acc EXCEPT !.reads = @ \cup {f},
                            !.total_replacements = @ + r.replacements_made]
    IN  IF r.hung THEN [read EXCEPT !.hung = TRUE]
        ELSE IF new_content = original_content THEN read
        ELSE IF f \in unwritable THEN [read EXCEPT !.failed = @ \cup {f}]
        ELSE [read EXCEPT !.files[f] = new_content,
                          !.writes = @ \cup {f},
                          !.files_changed_count = @ + 1]

\* ApplyFile without the comparison of line 325
ApplyFileAlwaysWrites(f, selected, S, R, unwritable, acc) ==
    LET lines == ReadLines(acc.files[f])
        r == ApplyItems(FileItems(selected, f), 1, lines, S, R, 0)
        new_content == Join(r.lines)
        read == [acc EXCEPT !.reads = @ \cup {f}]
    IN  IF r.hung THEN [read EXCEPT !.hung = TRUE]
        ELSE IF f \in unwritable THEN [read EXCEPT !.failed = @ \cup {f}]
        ELSE [read EXCEPT !.files[f] = new_content,
                          !.writes = @ \cup {f},
                          !.files_changed_count = @ + 1,
                          !.total_replacements = @ + r.replacements_made]

\* one file that was read (lines 297-329): acc after it.  open(.., 'w')
\* raises for the files of unwritable.
ApplyFile(f, selected, S, R, unwritable, acc) ==
    LET lines == ReadLines(acc.files[f])
        original_content == Join(lines)
        r == ApplyItems(FileItems(selected, f), 1, lines, S, R, 0)
        new_content == Join(r.lines)
        read == [acc EXCEPT !.reads = @ \cup {f}]
    IN  IF r.hung THEN [read EXCEPT !.hung = TRUE]
        ELSE IF new_content = original_content THEN read
        ELSE IF f \in unwritable THEN [read EXCEPT !.failed = @ \cup {f}]
        ELSE [read EXCEPT !.files[f] = new_content,
                          !.writes = @ \cup {f},
                          !.files_changed_count = @ + 1,
                          !.total_replacements = @ + r.replacements_made]

\* the files of files_to_change from the k-th on (lines 292-332); open()
\* raises for the files of unreadable
RECURSIVE ApplyFiles(_, _, _, _, _, _, _, _)
ApplyFiles(order, k, selected, S, R, unreadable, unwritable, acc) ==
    IF k > Len(order) \/ acc.hung THEN acc
    ELSE ApplyFiles(order, k + 1, selected, S, R, unreadable, unwritable,
                    IF order[k] \in unreadable
                    THEN [acc EXCEPT !.failed = @ \cup {order[k]}]
                    ELSE ApplyFile(order[k], selected, S, R, unwritable, acc))

ApplySelected(fs, selected, S, R, unreadable, unwritable) ==
    ApplyFiles(FileOrder(selected, <<>>), 1, selected, S, R, unreadable, unwritable,
               [files |-> fs, files_changed_count |-> 0, total_replacements |-> 0,
                reads |-> {}, writes |-> {}, failed |-> {}, hung |-> FALSE])

\* the "Replace All" button: it runs _perform_replace only while enabled
PerformReplace ==
    /\ ~hung
    /\ replace_button = "normal"
    /\ applies < MaxApplies
    /\ UNCHANGED <<target_directory, find_text, replace_text, file_extension,
                   edits, loop>>
    /\ LET selected_items == SelectedItems(preview_data)
       IN  IF preview_data = <<>>
           THEN /\ last' = [Ran("apply") EXCEPT !.outcome = "nothing to replace",
                               !.dialog = "warning: nothing to replace"]
                /\ UNCHANGED <<files, preview_data, tree, replace_button,
                               hung, at_scan, applies>>
           ELSE IF selected_items = <<>>
           THEN /\ last' = [Ran("apply") EXCEPT !.outcome = "none selected",
                               !.dialog = "warning: no items selected"]
                /\ UNCHANGED <<files, preview_data, tree, replace_button,
                               hung, at_scan, applies>>
           ELSE \E confirmed \in BOOLEAN :
                IF ~confirmed
                THEN UNCHANGED <<files, preview_data, tree, replace_button,
                                 hung, last, at_scan, applies>>
                ELSE \E unreadable \in FailureSets :
                     \E unwritable \in {w \in FailureSets : unreadable = {} \/ w = {}} :
                     \E r \in {ApplySelected(files, selected_items, find_text,
                                             replace_text, unreadable, unwritable)} :
                     LET ran == [Ran("apply") EXCEPT
                                    !.selected = selected_items,
                                    !.reads = r.reads, !.writes = r.writes,
                                    !.failed = r.failed,
                                    !.fresh = at_scan.unchanged
                                              /\ at_scan.unread = {},
                                    !.files_changed_count = r.files_changed_count,
                                    !.total_replacements = r.total_replacements]
                     IN  /\ files' = r.files
                         /\ hung' = r.hung
                         /\ applies' = applies + 1
                         /\ at_scan' = [at_scan EXCEPT !.unchanged = FALSE]
                         /\ IF r.hung
                            THEN /\ last' = [ran EXCEPT !.outcome = "hung",
                                                        !.dialog = "confirm: yes"]
                                 /\ UNCHANGED <<preview_data, tree, replace_button>>
                            ELSE /\ last' = [ran EXCEPT
                                                !.dialog = "info: replacement complete"]
                                 /\ preview_data' = <<>>
                                 /\ tree' = <<>>
                                 /\ replace_button' = "disabled"

Next ==
    \/ SelectDirectory
    \/ SetFindText
    \/ SetReplaceText
    \/ SetFileExtension
    \/ ExternalEdit
    \/ Toggle
    \/ SelectAll
    \/ DeselectAll
    \/ PreviewChanges
    \/ PerformReplace

Spec == Init /\ [][Next]_vars

(***************************************************************************)
(* LoopSpec: one run of a substitution loop on one line, an iteration at a *)
(* time, for every line, non-empty search term and replacement within the  *)
(* bounds.                                                                 *)
(***************************************************************************)
LineChars == {"a", "A", "b", "U0130"}
TermChars == {"a", "B"}

LoopLines == SeqsUpTo(LineChars, MaxLineLen)
LoopSearches == SeqsUpTo(TermChars, MaxTermLen) \ {<<>>}
LoopReplacements == SeqsUpTo(TermChars, MaxTermLen)

LoopState == [line |-> loop.line, start |-> loop.start, count |-> loop.count]

LoopPos ==
    IF loop.which = "preview" THEN PreviewPos(LoopState, loop.S)
    ELSE ReplacePos(LoopState, loop.S)

LoopBody ==
    IF loop.which = "preview" THEN PreviewBody(LoopState, loop.S, loop.R)
    ELSE ReplaceBody(LoopState, loop.S, loop.R)

LoopInit ==
    /\ files = << <<>>, <<>>, <<>> >>
    /\ AppStart
    /\ \E which \in {"preview", "replace"}, L \in LoopLines,
          S \in LoopSearches, R \in LoopReplacements :
          loop = [pc |-> "loop", which |-> which, L |-> L, S |-> S, R |-> R,
                  line |-> L, start |-> 0, count |-> 0]

\* pos # -1: the body runs once more                  (lines 226-231, 313-319)
LoopIterate ==
    /\ loop.pc = "loop"
    /\ loop.count < MaxIter
    /\ LoopPos # -1
    /\ loop' = [loop EXCEPT !.line = LoopBody.line, !.start = LoopBody.start,
                            !.count = LoopBody.count]
    /\ UNCHANGED appVars

\* pos = -1: break                                         (lines 227-228, 314-315)
LoopExit ==
    /\ loop.pc = "loop"
    /\ LoopPos = -1
    /\ loop' = [loop EXCEPT !.pc = "done"]
    /\ UNCHANGED appVars

LoopNext == LoopIterate \/ LoopExit

LoopSpec == LoopInit /\ [][LoopNext]_vars

(***************************************************************************)
(* What the substitution is meant to return: the line with each leftmost,  *)
(* non-overlapping span that equals S case-insensitively replaced by R,    *)
(* and the number of such spans.                                           *)
(***************************************************************************)
RECURSIVE Expected(_, _, _)
Expected(L, S, R) ==
    IF L = <<>> THEN [line |-> <<>>, count |-> 0]
    ELSE IF Len(L) >= Len(S) /\ Lower(SubSeq(L, 1, Len(S))) = Lower(S)
    THEN LET rest == Expected(SubSeq(L, Len(S) + 1, Len(L)), S, R)
         IN  [line |-> R \o rest.line, count |-> rest.count + 1]
    ELSE LET rest == Expected(Tail(L), S, R)
         IN  [line |-> <<Head(L)>> \o rest.line, count |-> rest.count]

\* C4: for every line L, non-empty S and R, the loop returns L with each
\* leftmost, non-overlapping, case-insensitive match of S in the original L
\* replaced by R, every other character unchanged, and performs exactly as
\* many substitutions as there are such matches.
C4_LoopReplacesEachMatch ==
    loop.pc = "done" =>
        /\ loop.line = Expected(loop.L, loop.S, loop.R).line
        /\ loop.count = Expected(loop.L, loop.S, loop.R).count

\* the same for the lines whose lower-case form is as long as the line
C4_HoldsWithoutDottedI ==
    (loop.pc = "done" /\ Len(Lower(loop.L)) = Len(loop.L)) =>
        /\ loop.line = Expected(loop.L, loop.S, loop.R).line
        /\ loop.count = Expected(loop.L, loop.S, loop.R).count

\* C5: the loop terminates for every line, non-empty S and R.  The loop is
\* deterministic in (new_line, start): an iteration that leaves both as they
\* were is repeated forever, so a loop that terminates never makes one.
C5_LoopTerminates ==
    (loop.pc = "loop" /\ LoopPos # -1) =>
        <<LoopBody.line, LoopBody.start>> # <<loop.line, loop.start>>

\* the bound on the iterations of a loop that does terminate: each iteration
\* consumes a match of the original line
C5_TerminatesWithoutDottedI ==
    (loop.pc = "loop" /\ Len(Lower(loop.L)) = Len(loop.L) /\ LoopPos # -1) =>
        /\ Len(loop.line) - loop.start > Len(LoopBody.line) - LoopBody.start
        /\ loop.count < Len(loop.L)

(***************************************************************************)
(* Properties of the program (Spec).  A step is an apply when it sets      *)
(* last to the record of one; preview_data and files are then the store    *)
(* and the disk before the apply, files' the disk after it.                *)
(***************************************************************************)
ApplyStep == last' # last /\ last'.op = "apply"

\* an apply that got past the confirmation and ran to its summary
ApplyDoneStep == ApplyStep /\ last'.outcome = "done" /\ last'.selected # <<>>

IncludedAt(pd, f, i) ==
    \E k \in 1..Len(pd) :
        pd[k].included /\ pd[k].path = f /\ pd[k].line_num = i

\* C1: with the terms and the files unchanged since the scan, after the
\* apply the line at the line_number of every included occurrence is the
\* new_line the scan stored for it (here: after an apply in which no file
\* failed to be read or written).
C1_PreviewedIsWritten ==
    [][(ApplyDoneStep /\ at_scan.unchanged /\ last'.failed = {}) =>
          \A k \in 1..Len(preview_data) :
              preview_data[k].included =>
                  LET after == ReadLines(files'[preview_data[k].path])
                  IN  /\ preview_data[k].line_num <= Len(after)
                      /\ after[preview_data[k].line_num]
                             = preview_data[k].new_line]_vars

\* C2: an apply leaves every line that is not the line of an included
\* occurrence as it was: the lines of excluded occurrences, the lines of
\* files with no included occurrence, and the number of lines of every file.
C2_OnlyIncludedLinesRewritten ==
    [][ApplyStep =>
          \A f \in Files :
              LET before == ReadLines(files[f])
                  after == ReadLines(files'[f])
              IN  /\ Len(after) = Len(before)
                  /\ \A i \in 1..Len(before) :
                        ~IncludedAt(preview_data, f, i) => after[i] = before[i]]_vars

\* a scan that directly follows a clean apply, with the same search term,
\* and reads every file
RescanStep ==
    /\ CleanApply(last)
    /\ last'.op = "scan"
    /\ last'.outcome = "done"
    /\ last'.failed = {}
    /\ last'.find = last.find

Lines(items) == {<<items[k].path, items[k].line_num>> : k \in 1..Len(items)}

\* the lines that hold the term S in any case in the files fs whose name
\* ends with ext
Matching(fs, ext, S) ==
    UNION {{<<f, i>> : i \in {j \in 1..Len(ReadLines(fs[f])) :
                              Contains(Lower(ReadLines(fs[f])[j]), Lower(S))}} :
           f \in {g \in Files : EndsWith(FileNames[g], ext)}}

RECURSIVE Substitutions(_, _, _, _, _)
Substitutions(pd, disk, fs, S, R) ==
    IF pd = <<>> THEN 0
    ELSE LET it == Head(pd)
             lines == ReadLines(disk[it.path])
             counted == /\ it.included
                        /\ it.path \in fs
                        /\ it.line_num <= Len(lines)
         IN  (IF counted
              THEN ReplaceRun(LoopStart(lines[it.line_num]), S, R).count
              ELSE 0)
             + Substitutions(Tail(pd), disk, fs, S, R)

\* C6 as the spec has it: the total the apply reports is the sum of the
\* substitutions it made on all the lines it processed (here: of an apply
\* in which no file failed).
C6_TotalCountsEveryProcessedLine ==
    [][(ApplyDoneStep /\ last'.failed = {}) =>
          last'.total_replacements =
              Substitutions(preview_data, files, last'.reads,
                            find_text, replace_text)]_vars

\* C6, amended: the total the apply reports is the sum of the substitutions
\* it made on the lines of the files it wrote back; those made in a file
\* whose content came out unchanged, or whose write failed, are not counted.
C6_TotalCountsLinesOfWrittenFiles ==
    [][ApplyDoneStep =>
          last'.total_replacements =
              Substitutions(preview_data, files, last'.writes,
                            find_text, replace_text)]_vars

C6_Witness ==
    /\ last.op = "apply"
    /\ last.outcome = "done"
    /\ last.total_replacements > 0
    /\ last.reads \ last.writes # {}

AllExcluded(pd) == pd # <<>> /\ \A k \in 1..Len(pd) : ~pd[k].included

\* C7 as the spec has it: an apply with every record excluded writes no file
\* and reports zero files changed.
C7_NothingIncludedReportsZero ==
    [][(ApplyStep /\ AllExcluded(preview_data)) =>
          /\ files' = files
          /\ last'.writes = {}
          /\ last'.dialog = "info: replacement complete"
          /\ last'.files_changed_count = 0]_vars

\* C7, amended: an apply with every record excluded reads and writes no file
\* and reports no summary: it warns that no item is selected and leaves the
\* store as it is.
C7_NothingIncludedWarnsAndWritesNothing ==
    [][(ApplyStep /\ AllExcluded(preview_data)) =>
          /\ files' = files
          /\ last'.writes = {}
          /\ last'.reads = {}
          /\ last'.dialog = "warning: no items selected"
          /\ preview_data' = preview_data
          /\ tree' = tree]_vars

C7_Witness ==
    /\ last.op = "apply"
    /\ last.outcome = "none selected"
    /\ AllExcluded(preview_data)

\* C8: a scan or an apply triggered with an empty search term or no
\* directory is refused at once: it reads and writes no file and never
\* enters the substitution loop with the empty term.
C8_PreconditionsRefuseTheRun ==
    (last.op \in {"scan", "apply"} /\ (last.find = <<>> \/ last.directory = "")) =>
        /\ last.reads = {}
        /\ last.writes = {}
        /\ last.outcome # "hung"

\* what the validation of lines 198-203 does for the scan
C8_ScanRefused ==
    (last.op = "scan" /\ (last.find = <<>> \/ last.directory = "")) =>
        /\ last.reads = {}
        /\ last.outcome = "rejected"

\* the files of the selected occurrences
SelectedFiles(selected) == {selected[k].path : k \in 1..Len(selected)}

\* file f after an apply of its own selected occurrences alone, no file failing
AppliedAlone(disk, selected, f, S, R) ==
    ApplySelected(disk, FileItems(selected, f), S, R, {}, {}).files[f]

\* C9: a file that cannot be read or written does not keep the apply from
\* processing and writing the others as if nothing had failed, and the apply
\* always ends with its summary.
C9_FailuresIsolatedAndSummaryReported ==
    [][(ApplyStep /\ last'.selected # <<>>) =>
          /\ last'.outcome = "done"
          /\ last'.dialog = "info: replacement complete"
          /\ \A f \in SelectedFiles(last'.selected) \ last'.failed :
                files'[f] = AppliedAlone(files, last'.selected, f,
                                         find_text, replace_text)]_vars

\* the isolation alone, for the applies that do end
C9_FailuresIsolatedWhenApplyEnds ==
    [][ApplyDoneStep =>
          \A f \in SelectedFiles(last'.selected) \ last'.failed :
              files'[f] = AppliedAlone(files, last'.selected, f,
                                       find_text, replace_text)]_vars

\* C10: in every reachable state, toggling a row twice restores the record's
\* included value; the first toggle flips it, and neither toggle changes
\* another record, or the path, line number or line texts of any record.
C10_ToggleIsItsOwnInverse ==
    \A i \in 1..Len(tree) :
        LET once == ToggleCheckbox(preview_data, tree, i)
            twice == ToggleCheckbox(once.preview_data, once.tree, i)
        IN  /\ Len(tree) = Len(preview_data)
            /\ once.preview_data =
                   [preview_data EXCEPT ![i].included = ~preview_data[i].included]
            /\ twice.preview_data = preview_data
            /\ twice.tree = tree

C10_Witness ==
    \E i, j \in 1..Len(tree) :
        /\ tree[i].include = CROSSED
        /\ ~preview_data[i].included
        /\ tree[j].include = CHECKED

\* C11: the store is cleared before each scan and after each apply that ran
\* to its summary.  After a scan the store holds records of that scan only:
\* none after a refused scan, otherwise one record at most for a line, each
\* with the line as the file holds it and the replacement line of the terms
\* of that scan.  After an apply that ran to its summary the store and the
\* displayed list are empty.
C11_StoreClearedBeforeScanAndAfterApply ==
    /\ (last.op = "scan" /\ last.outcome = "rejected") =>
           (preview_data = <<>> /\ tree = <<>>)
    /\ (last.op = "scan" /\ last.outcome = "done") =>
           /\ Len(preview_data) = Cardinality(Lines(preview_data))
           /\ \A k \in 1..Len(preview_data) :
                 LET it == preview_data[k]
                     lines == ReadLines(files[it.path])
                 IN  /\ it.line_num <= Len(lines)
                     /\ it.original_line = lines[it.line_num]
                     /\ it.new_line =
                            PreviewRun(LoopStart(it.original_line),
                                       last.find, last.replace).line
    /\ (last.op = "apply" /\ last.outcome = "done") =>
           (preview_data = <<>> /\ tree = <<>>)

\* a scan that found records and had started on a store that held some
C11_Witness ==
    /\ last.op = "scan"
    /\ last.outcome = "done"
    /\ last.n_items > 0
    /\ preview_data # <<>>

\* a scan that got past its validation and ran to its end
ScanDoneStep ==
    /\ last'.op = "scan"
    /\ last'.outcome = "done"
    /\ PreviewChanges

\* C12: after a scan with a non-empty search term the store holds exactly
\* one record for each line that contains the term case-insensitively, of
\* each file that the scan could read and whose name ends with the configured
\* extension (with its leading "."), and none for any other line; every
\* record is included, and the records of one file are in increasing line
\* order.
C12_ScanFindsEachMatchingLineOnce ==
    [][ScanDoneStep =>
          /\ Lines(preview_data') =
                 {m \in Matching(files, file_extension', find_text) :
                     m[1] \notin last'.failed}
          /\ file_extension' = NormalExt(file_extension)
          /\ Len(preview_data') = Cardinality(Lines(preview_data'))
          /\ \A k \in 1..Len(preview_data') : preview_data'[k].included
          /\ \A j, k \in 1..Len(preview_data') :
                (j < k /\ preview_data'[j].path = preview_data'[k].path) =>
                    preview_data'[j].line_num < preview_data'[k].line_num]_vars

\* a scan that found two lines or more, read a line that does not hold the
\* term, and left out a file of another extension that holds it
C12_Witness ==
    /\ last.op = "scan"
    /\ last.outcome = "done"
    /\ Len(preview_data) >= 2
    /\ \A k \in 1..Len(preview_data) : preview_data[k].included
    /\ \E f \in last.reads : \E i \in 1..Len(ReadLines(files[f])) :
          <<f, i>> \notin Matching(files, file_extension, last.find)
    /\ \E f \in Files \ last.reads :
          Contains(Lower(files[f]), Lower(last.find))

\* file f once the loop of lines 301-321 has processed its included
\* occurrences: the line array, and hung = TRUE when the loop never ends
ProcessedFile(disk, pd, f, S, R) ==
    ApplyItems(FileItems(SelectedItems(pd), f), 1, ReadLines(disk[f]), S, R, 0)

\* C13 as the spec has it: a file the apply read is written back if and only
\* if its content after processing differs from the content read, and the
\* number of files changed that is reported is the number of files written
\* (here: of an apply that ran to its summary).
C13_WrittenIffContentDiffers ==
    [][ApplyDoneStep =>
          /\ \A f \in last'.reads :
                (f \in last'.writes) <=>
                    (Join(ProcessedFile(files, preview_data, f,
                                        find_text, replace_text).lines) # files[f])
          /\ last'.files_changed_count = Cardinality(last'.writes)]_vars

\* C13, amended: a file is written back if and only if the apply read it,
\* processed all its included occurrences, its content after that differs
\* from the content read, and the write does not fail; a file written holds
\* the processed content, a file with no failure that is not written is as
\* it was; the number of files changed that an apply reports is the number
\* of files written.
C13_WrittenIffContentDiffersAndWriteSucceeds ==
    [][(ApplyStep /\ last'.selected # <<>>) =>
          /\ \A f \in Files :
                LET processed == ProcessedFile(files, preview_data, f,
                                               find_text, replace_text)
                IN  /\ (f \in last'.writes) <=>
                           /\ f \in last'.reads
                           /\ f \notin last'.failed
                           /\ ~processed.hung
                           /\ Join(processed.lines) # files[f]
                    /\ (f \notin last'.failed) =>
                           files'[f] = IF f \in last'.writes
                                       THEN Join(processed.lines)
                                       ELSE files[f]
          /\ (last'.outcome = "done") =>
                 (last'.files_changed_count = Cardinality(last'.writes))]_vars

\* an apply that wrote one file and failed to write another it had read
C13_Witness ==
    /\ last.op = "apply"
    /\ last.outcome = "done"
    /\ last.files_changed_count >= 1
    /\ last.failed \cap last.reads # {}

\* C14: in every state the displayed list and the store agree: they have
\* the same number of rows, and the row at each index shows the include mark
\* if and only if the record at that index is included.
C14_TreeAgreesWithStore ==
    /\ Len(tree) = Len(preview_data)
    /\ \A i \in 1..Len(tree) :
          /\ tree[i].include \in {CHECKED, CROSSED}
          /\ (tree[i].include = CHECKED) <=> preview_data[i].included

\* two rows or more, every one of them excluded
C14_Witness ==
    /\ Len(tree) >= 2
    /\ \A i \in 1..Len(tree) :
          tree[i].include = CROSSED /\ ~preview_data[i].included

\* the lines read from file f, each line whose number is the line_number of
\* an included occurrence put through the loop, whatever the line holds
RewrittenByLineNumber(disk, pd, f, S, R) ==
    LET lines == ReadLines(disk[f])
    IN  [i \in 1..Len(lines) |->
            IF IncludedAt(pd, f, i)
            THEN ReplaceRun(LoopStart(lines[i]), S, R).line
            ELSE lines[i]]

\* C15: the apply selects the line to rewrite by line_number alone.  A file
\* it writes holds the lines it read, those at the line_number of an included
\* occurrence substituted whatever they hold; an included occurrence whose
\* line_number is past the end of the file changes no line and counts no
\* substitution, and the other occurrences of the file are still processed.
\* An apply that runs to its summary leaves every file it could read and
\* write so, and its total counts the lines in range only.
C15_LineChosenByNumberAlone ==
    [][(ApplyStep /\ last'.selected # <<>>) =>
          /\ \A f \in last'.writes :
                files'[f] = Join(RewrittenByLineNumber(files, preview_data, f,
                                                       find_text, replace_text))
          /\ (last'.outcome = "done") =>
                 /\ \A f \in last'.reads \ last'.failed :
                       files'[f] =
                           Join(RewrittenByLineNumber(files, preview_data, f,
                                                      find_text, replace_text))
                 /\ last'.total_replacements =
                        Substitutions(preview_data, files, last'.writes,
                                      find_text, replace_text)]_vars

\* an apply, after an edit from outside, that wrote a file one of whose
\* included occurrences lies past the end of the file
C15_Witness ==
    /\ last.op = "apply"
    /\ last.outcome = "done"
    /\ ~last.fresh
    /\ edits > 0
    /\ \E k \in 1..Len(last.selected) :
          /\ last.selected[k].path \in last.writes
          /\ last.selected[k].line_num
                 > Len(ReadLines(files[last.selected[k].path]))
          /\ \A c \in 1..Len(last.selected[k].original_line) :
                last.selected[k].original_line[c] # "U0130"

=============================================================================
